---- MODULE Spec2Model ----
(***************************************************************************)
(* RAG pipeline: token chunker, artifact cache and /ingest orchestrator,   *)
(* hybrid RRF search and the /query handler.                               *)
(*                                                                         *)
(* The specifications of this module, one per part of the backend:         *)
(*   SpecChunk  chunk_text_by_tokens, one step per loop iteration          *)
(*   SpecRRF    search_hybrid_rrf inside the /query handler                *)
(*   Spec       the /ingest handler over the on-disk artifact cache        *)
(*   SpecCorpus create_chunks_from_corpus and index_chunks on a corpus     *)
(*   SpecSave   overlapping /ingest requests at one cache file             *)
(* Each keeps the variables of the others at their idle values.            *)
(***************************************************************************)
EXTENDS Integers, Sequences, FiniteSets, TLC

VARIABLES
    \* chunk_text_by_tokens (chunking_utils.py)
    tokens,          \* encoding.encode(text)
    max_tokens,      \* parameter max_tokens
    overlap_tokens,  \* parameter overlap_tokens
    start,           \* local start
    chunks,          \* local chunks: the decoded token slices, in order
    spans,           \* the (start, end) pair of each slice appended so far
    cpc,             \* position in chunk_text_by_tokens
    \* /query with search_hybrid_rrf (main.py, elasticsearch_utils.py)
    qreq,            \* the last request and what the collaborators answered
    qsearch,         \* what search_hybrid_rrf returned or raised
    qresp,           \* the QueryResponse
    \* /ingest (main.py)
    drive,           \* per source: the files discovery finds there
    cache,           \* the four artifact files under cache/
    run,             \* the last /ingest run: what it loaded, invoked, returned
    nruns,           \* number of /ingest requests served
    \* create_chunks_from_corpus and index_chunks on a given corpus
    the_corpus,      \* parameter corpus
    the_chunks,      \* what create_chunks_from_corpus returned
    es_index,        \* the documents of the index, by _id
    kpc,             \* "start", "created", "indexed"
    \* overlapping /ingest requests at one cache file (main.py, corpus_utils.py)
    rpc,             \* per request: position in the handler, next piece to write
    loop,            \* the request whose handler holds the event loop, or 0
    disk,            \* the cache file: whether it exists, and its content
    observed,        \* per request: what its load found in the file
    payload_kind,    \* per writer: "empty" for a payload [], else "full"
    written          \* the requests whose save has completed

chunkVars  == <<tokens, max_tokens, overlap_tokens, start, chunks, spans, cpc>>
queryVars  == <<qreq, qsearch, qresp>>
ingestVars == <<drive, cache, run, nruns>>
corpusVars == <<the_corpus, the_chunks, es_index, kpc>>
saveVars == <<rpc, loop, disk, observed, payload_kind, written>>
vars == <<tokens, max_tokens, overlap_tokens, start, chunks, spans, cpc,
          qreq, qsearch, qresp, drive, cache, run, nruns,
          the_corpus, the_chunks, es_index, kpc,
          rpc, loop, disk, observed, payload_kind, written>>

Min(a, b) == IF a <= b THEN a ELSE b
Max(a, b) == IF a >= b THEN a ELSE b

(***************************************************************************)
(* Token chunker                                                           *)
(***************************************************************************)

\* Longest token sequence, widest window and most loop iterations explored.
MaxLen == 6
MaxWindow == 3
MaxIter == MaxLen + 2

\* Token ids; 0 stands for a token that decodes to white space.
TokenIds == 0..1

SeqsUpTo(S, n) == UNION {[1..m -> S] : m \in 0..n}

\* tokens[a:b] as Python slices it: a negative index counts from the end,
\* and both ends are clamped to the sequence.
PyIndex(n, i) == IF i < 0 THEN Max(n + i, 0) ELSE Min(i, n)
PySlice(s, a, b) == SubSeq(s, PyIndex(Len(s), a) + 1, PyIndex(Len(s), b))

\* end = min(start + max_tokens, len(tokens))
WindowEnd(s, m, n) == Min(s + m, n)

\* start = end - overlap_tokens; NextStart_NoOverlap is the variant that
\* drops the overlap.
NextStart_NoOverlap(e, ov) == e
NextStart(e, ov) == e - ov

ChunkIdle ==
    /\ tokens = <<>>
    /\ max_tokens = 0
    /\ overlap_tokens = 0
    /\ start = 0
    /\ chunks = <<>>
    /\ spans = <<>>
    /\ cpc = "idle"

\* A call chunk_text_by_tokens(text, max_tokens, overlap_tokens).
ChunkInit ==
    /\ tokens \in SeqsUpTo(TokenIds, MaxLen)
    /\ max_tokens \in 1..MaxWindow
    /\ overlap_tokens \in 0..MaxWindow
    /\ start = 0
    /\ chunks = <<>>
    /\ spans = <<>>
    /\ cpc = "call"

\* Lines 10-17: short texts are returned whole, longer ones enter the loop.
ChunkEnter ==
    /\ cpc = "call"
    /\ IF Len(tokens) <= max_tokens
         THEN /\ chunks' = <<tokens>>
              /\ spans' = <<<<0, Len(tokens)>>>>
              /\ cpc' = "done"
         ELSE /\ chunks' = <<>>
              /\ spans' = <<>>
              /\ cpc' = "loop"
    /\ start' = 0
    /\ UNCHANGED <<tokens, max_tokens, overlap_tokens, queryVars, ingestVars, corpusVars, saveVars>>

\* Lines 19-30: the loop head and one iteration of the while loop.
ChunkStep ==
    /\ cpc = "loop"
    /\ Len(chunks) < MaxIter
    /\ IF start < Len(tokens)
         THEN LET end == WindowEnd(start, max_tokens, Len(tokens))
              IN  /\ chunks' = Append(chunks, PySlice(tokens, start, end))
                  /\ spans' = Append(spans, <<start, end>>)
                  /\ IF end >= Len(tokens)
                       THEN /\ cpc' = "done"
                            /\ start' = start
                       ELSE /\ cpc' = "loop"
                            /\ start' = NextStart(end, overlap_tokens)
         ELSE /\ cpc' = "done"
              /\ UNCHANGED <<start, chunks, spans>>
    /\ UNCHANGED <<tokens, max_tokens, overlap_tokens, queryVars, ingestVars, corpusVars, saveVars>>

ChunkNext == ChunkEnter \/ ChunkStep

(***************************************************************************)
(* Hybrid RRF search and the /query handler                                *)
(***************************************************************************)

\* Chunk ids of the index (in lexical order of the id strings), the longest
\* hit list an adapter answers, requested sizes and RRF constants explored.
NChunks == 2
MaxHits == 2
ChunkIds == 1..NChunks
Sizes == {1, 2}
RrfKs == {1, 60}

\* The index document a chunk id names comes from this file.
FilenameOf(c) == c % 2

Range(s) == {s[i] : i \in 1..Len(s)}
IsInjective(s) == \A i, j \in 1..Len(s) : s[i] = s[j] => i = j
Take(s, n) == SubSeq(s, 1, Min(n, Len(s)))
Perms(S) == {p \in [1..Cardinality(S) -> S] : IsInjective(p)}

\* Hit lists an adapter can answer: the index holds one document per
\* chunk_id (_id = chunk_id), so no id occurs twice in one list.
HitLists == {s \in SeqsUpTo(ChunkIds, MaxHits) : IsInjective(s)}

\* search_size = min(size * 3, 50)
SearchSizeCap == 50
SearchSize(size) == Min(size * 3, SearchSizeCap)

\* What a signal adapter answers: success with hits, or success = False
\* with "results": [] (the except branches of search_bm25,
\* search_dense_vector and search_elser).
AdapterFailed == [success |-> FALSE, results |-> <<>>]
AdapterAnswers(size) ==
    {[success |-> TRUE, results |-> r] :
        r \in {h \in HitLists : Len(h) <= SearchSize(size)}}
    \cup {AdapterFailed}

\* The query_vector argument: None, [], a list of another length than 384,
\* a list of 384 floats.
QueryVectors == {"none", "empty", "wrongdim", "ok"}
VectorTruthy(qv) == qv \in {"wrongdim", "ok"}
VectorHas384(qv) == qv = "ok"

\* {chunk_id: rank} of a result list (a later duplicate would win).
ChunkRanks(results) ==
    [c \in Range(results) |->
        (CHOOSE i \in 1..Len(results) :
            /\ results[i] = c
            /\ \A j \in (i + 1)..Len(results) : results[j] # c) - 1]

\* Scores are exact fractions over RrfDenom(k), the product of every
\* k + rank + 1 a rank of a hit list can give.
RECURSIVE ProductTo(_, _)
ProductTo(k, n) == IF n = 0 THEN 1 ELSE (k + n) * ProductTo(k, n - 1)
RrfDenom(k) == ProductTo(k, MaxHits)

\* calculate_rrf_score: 1.0 / (k + rank + 1), as a numerator over RrfDenom(k);
\* the variant takes the rank as 1-based.
calculate_rrf_score_OneBased(rank, k) == RrfDenom(k) \div (k + rank)
calculate_rrf_score(rank, k) == RrfDenom(k) \div (k + rank + 1)

\* sorted(items, key = score, reverse = True): stable, so equal scores keep
\* the order of the items, which is the iteration order of the set.
RECURSIVE InsertByScore(_, _, _)
InsertByScore(x, s, score) ==
    IF s = <<>> THEN <<x>>
    ELSE IF score[s[1]] >= score[x]
           THEN <<s[1]>> \o InsertByScore(x, Tail(s), score)
           ELSE <<x>> \o s
RECURSIVE SortedByScore(_, _)
SortedByScore(items, score) ==
    IF items = <<>> THEN <<>>
    ELSE InsertByScore(items[Len(items)],
                       SortedByScore(SubSeq(items, 1, Len(items) - 1), score),
                       score)

\* all_chunks: the union of the three {chunk_id: rank} key sets; the dense
\* adapter is called only for a non-empty query vector of 384 dimensions.
DenseCalled(qv) == VectorTruthy(qv) /\ VectorHas384(qv)
DenseHits(qv, dense) == IF DenseCalled(qv) THEN dense.results ELSE <<>>
AllChunks(qv, bm25, dense, elser) ==
    Range(bm25.results) \cup Range(DenseHits(qv, dense)) \cup Range(elser.results)

\* The fused score of one candidate (lines 479-488).
FusedScore(c, k, bm25_chunks, dense_chunks, elser_chunks) ==
    (IF c \in DOMAIN bm25_chunks
       THEN calculate_rrf_score(bm25_chunks[c], k) ELSE 0)
    + (IF c \in DOMAIN dense_chunks
         THEN calculate_rrf_score(dense_chunks[c], k) ELSE 0)
    + (IF c \in DOMAIN elser_chunks
         THEN calculate_rrf_score(elser_chunks[c], k) ELSE 0)

\* 'found_in' of a candidate (lines 502-506); the variant flags only the
\* signal whose record was taken as result_data.
FoundIn_ResultSource(c, bm25_chunks, dense_chunks, elser_chunks) ==
    [bm25  |-> c \in DOMAIN bm25_chunks /\ c \notin DOMAIN dense_chunks
                                        /\ c \notin DOMAIN elser_chunks,
     dense |-> c \in DOMAIN dense_chunks /\ c \notin DOMAIN elser_chunks,
     elser |-> c \in DOMAIN elser_chunks]
FoundIn(c, bm25_chunks, dense_chunks, elser_chunks) ==
    [bm25  |-> c \in DOMAIN bm25_chunks,
     dense |-> c \in DOMAIN dense_chunks,
     elser |-> c \in DOMAIN elser_chunks]

\* The truncation sorted(...)[:size] and the same without it (a variant).
Truncate_Keep(s, size) == s
Truncate(s, size) == Take(s, size)

\* search_hybrid_rrf. `order` is the order in which the set all_chunks is
\* iterated, which Python leaves to the hash of the id strings. The return
\* statement reads dense_results whenever query_vector is truthy, and
\* dense_results is bound only when the dense adapter was called.
search_hybrid_rrf(qv, size, k, bm25, dense, elser, order) ==
    LET bm25_chunks  == ChunkRanks(bm25.results)
        dense_chunks == ChunkRanks(DenseHits(qv, dense))
        elser_chunks == ChunkRanks(elser.results)
        all_chunks   == AllChunks(qv, bm25, dense, elser)
        score == [c \in all_chunks |->
                    FusedScore(c, k, bm25_chunks, dense_chunks, elser_chunks)]
        source(c) == IF c \in DOMAIN elser_chunks THEN "elser"
                     ELSE IF c \in DOMAIN dense_chunks THEN "dense"
                     ELSE "bm25"
        sorted_results == Truncate(SortedByScore(order, score), size)
        final_results ==
            [i \in 1..Len(sorted_results) |->
                LET c == sorted_results[i]
                IN  [chunk_id  |-> c,
                     filename  |-> FilenameOf(c),
                     rrf_score |-> score[c],
                     result_of |-> source(c),
                     found_in  |-> FoundIn(c, bm25_chunks, dense_chunks,
                                           elser_chunks)]]
    IN  IF VectorTruthy(qv) /\ ~DenseCalled(qv)
          THEN [kind |-> "raised", success |-> FALSE,
                total_candidates |-> 0, results |-> <<>>]
          ELSE [kind |-> "returned", success |-> TRUE,
                total_candidates |-> Cardinality(all_chunks),
                results |-> final_results]

\* The /query handler after the search, for type "hybrid" (lines 239-303).
\* llm_ok: whether generate_answer_from_chunks succeeds; cites: the order
\* list(set(sources)) gives the source files.
QueryResponseOf(result, size, use_llm, llm_ok, cites) ==
    LET hits  == result.results
        names == [i \in 1..Len(hits) |-> hits[i].filename]
    IN  IF result.kind = "raised"
          THEN [answer |-> "Error processing query", citations |-> <<>>,
                sources_used |-> 0, generation_method |-> "error"]
        ELSE IF ~result.success
          THEN [answer |-> "Search failed", citations |-> <<>>,
                sources_used |-> 0, generation_method |-> "error"]
        ELSE IF use_llm /\ hits # <<>>
          THEN IF llm_ok
                 THEN [answer |-> "llm answer", citations |-> Take(cites, 5),
                       sources_used |-> Len(cites),
                       generation_method |-> "llm_generated"]
                 ELSE [answer |-> "found documents, could not generate",
                       citations |-> Take(names, 3),
                       sources_used |-> 0,
                       generation_method |-> "llm_failed"]
        ELSE [answer |-> "found documents: excerpts", citations |-> Take(names, 5),
              sources_used |-> Len(hits),
              generation_method |-> "retrieval_only"]

NoRequest  == [kind |-> "none"]
NoSearch   == [kind |-> "none", success |-> FALSE,
               total_candidates |-> 0, results |-> <<>>]
NoResponse == [answer |-> "", citations |-> <<>>, sources_used |-> 0,
               generation_method |-> "none"]

QueryIdle ==
    /\ qreq = NoRequest
    /\ qsearch = NoSearch
    /\ qresp = NoResponse

\* The adapters' answers to one hybrid search; the dense adapter answers
\* only when it is called.
NotCalled == [success |-> FALSE, results |-> <<>>]
DenseAnswers(qv, size) == IF DenseCalled(qv) THEN AdapterAnswers(size) ELSE {NotCalled}

\* The requests explored, each with what the collaborators answer to it:
\* a direct call search_hybrid_rrf(query, query_vector, size, k), or a
\* POST /query with type "hybrid", where generate_query_embedding gives a
\* vector of 384 floats or None. llm_ok is the answer of the synthesis
\* collaborator, should it be called.
IsRequest(r, kind, qvs, llm) ==
    \E qv \in qvs, size \in Sizes, k \in RrfKs, l \in llm :
    \E bm25 \in AdapterAnswers(size), elser \in AdapterAnswers(size) :
    \E dense \in DenseAnswers(qv, size) :
        r = [kind |-> kind, query_vector |-> qv, size |-> size, k |-> k,
             bm25 |-> bm25, dense |-> dense, elser |-> elser,
             use_llm |-> l[1], llm_ok |-> l[2]]

QueryInit ==
    /\ \/ IsRequest(qreq, "search", QueryVectors, {<<FALSE, FALSE>>})
       \/ IsRequest(qreq, "query", {"none", "ok"},
                    {<<FALSE, FALSE>>, <<TRUE, FALSE>>, <<TRUE, TRUE>>})
    /\ qsearch = NoSearch
    /\ qresp = NoResponse

\* A call search_hybrid_rrf(query, query_vector, size = size, k = k).
SearchCall ==
    /\ qreq.kind = "search"
    /\ qsearch = NoSearch
    /\ \E order \in Perms(AllChunks(qreq.query_vector, qreq.bm25, qreq.dense, qreq.elser)) :
          qsearch' = search_hybrid_rrf(qreq.query_vector, qreq.size, qreq.k,
                                       qreq.bm25, qreq.dense, qreq.elser, order)
    /\ UNCHANGED <<qreq, qresp, chunkVars, ingestVars, corpusVars, saveVars>>

\* POST /query with type "hybrid" (lines 193-303): the search, then the
\* answer. cites is the order list(set(sources)) gives the source files.
Query ==
    /\ qreq.kind = "query"
    /\ qsearch = NoSearch
    /\ \E order \in Perms(AllChunks(qreq.query_vector, qreq.bm25, qreq.dense, qreq.elser)) :
       LET result == search_hybrid_rrf(qreq.query_vector, qreq.size, qreq.k,
                                       qreq.bm25, qreq.dense, qreq.elser, order)
           files  == {result.results[i].filename :
                         i \in 1..Min(Len(result.results), Min(qreq.size, 5))}
       IN  \E cites \in Perms(files) :
           /\ qsearch' = result
           /\ qresp' = QueryResponseOf(result, qreq.size, qreq.use_llm, qreq.llm_ok, cites)
    /\ UNCHANGED <<qreq, chunkVars, ingestVars, corpusVars, saveVars>>

QueryNext == SearchCall \/ Query

(***************************************************************************)
(* search_hybrid (the weighted blend) and search_dense_vector              *)
(***************************************************************************)

\* A number is kept as an exact fraction. The caller's weights: 0.0, 0.2,
\* 0.3, 0.5 and 1.0 of the documented range 0.0-1.0.
RECURSIVE Gcd(_, _)
Gcd(a, b) == IF b = 0 THEN a ELSE Gcd(b, a % b)
Frac(n, d) == LET g == Gcd(n, d) IN [num |-> n \div g, den |-> d \div g]
Plus(a, b) == Frac(a.num * b.den + b.num * a.den, a.den * b.den)
Times(a, b) == Frac(a.num * b.num, a.den * b.den)
Over(a, b) == Frac(a.num * b.den, a.den * b.num)
WeightsIn == {Frac(n, 10) : n \in {0, 2, 3, 5, 10}}
FracEq(a, b) == a.num * b.den = b.num * a.den
Positive(a) == a.num * a.den > 0

\* The query vector: None, or a list of some length.
Dim == 384
NoVector == [given |-> FALSE, len |-> 0]
Vectors == {[given |-> TRUE, len |-> n] : n \in {0, Dim - 1, Dim, Dim + 1}}
Truthy(qv) == qv.given /\ qv.len > 0

\* The dimension test of search_dense_vector and search_hybrid; the variant
\* accepts every vector that is not too long.
DimensionOk_AtMost(qv) == qv.len <= Dim
DimensionOk(qv) == qv.len = Dim

\* What es.search answers: hits, or an exception.
EngineAnswers == {[ok |-> TRUE, hits |-> h] : h \in HitLists}
                 \cup {[ok |-> FALSE, hits |-> <<>>]}

\* search_dense_vector(query_vector, size): `searches` counts the calls of
\* es.search.
search_dense_vector(qv, engine) ==
    IF ~DimensionOk(qv)
      THEN [success |-> FALSE, error |-> "must have 384 dimensions",
            results |-> <<>>, searches |-> 0]
    ELSE IF engine.ok
      THEN [success |-> TRUE, error |-> "", results |-> engine.hits,
            searches |-> 1]
      ELSE [success |-> FALSE, error |-> "engine", results |-> <<>>,
            searches |-> 1]

\* Lines 557-561: the weights are divided by their sum when it is positive.
Normalized(w, total) == IF Positive(total) THEN Over(w, total) ELSE w

\* `if weight > 0`; the variant issues the clause of a zero weight too.
Contributes_ZeroToo(weight) == weight.num * weight.den >= 0
Contributes(weight) == Positive(weight)

\* The boosts of the clauses: raw_text 2.0 and filename 1.5 for bm25, 1 for
\* the text expansion and for knn, each times the weight.
NativeBoosts(signal) ==
    IF signal = "bm25" THEN <<Frac(2, 1), Frac(3, 2)>>
    ELSE <<Frac(1, 1)>>
Clause(signal, weight) ==
    [signal |-> signal,
     boosts |-> [i \in DOMAIN NativeBoosts(signal) |->
                    Times(weight, NativeBoosts(signal)[i])]]

\* search_hybrid(query, query_vector, size, bm25_weight, dense_weight,
\* elser_weight): the search body it sends and what it returns.
search_hybrid(qv, bm25_in, dense_in, elser_in, engine) ==
    LET total_weight == Plus(Plus(bm25_in, dense_in), elser_in)
        bm25_weight  == Normalized(bm25_in, total_weight)
        dense_weight == Normalized(dense_in, total_weight)
        elser_weight == Normalized(elser_in, total_weight)
        should_queries ==
            (IF Contributes(bm25_weight) THEN <<Clause("bm25", bm25_weight)>>
             ELSE <<>>)
            \o (IF Contributes(elser_weight)
                  THEN <<Clause("elser", elser_weight)>> ELSE <<>>)
        knn == IF Truthy(qv) /\ DimensionOk(qv) /\ Contributes(dense_weight)
                 THEN <<Clause("dense", dense_weight)>> ELSE <<>>
    IN  [success |-> engine.ok,
         weights |-> [bm25 |-> bm25_weight, dense |-> dense_weight,
                      elser |-> elser_weight],
         should  |-> should_queries,
         knn     |-> knn,
         results |-> engine.hits,
         searches |-> 1]

\* The calls explored.
BlendInit ==
    /\ \/ \E qv \in Vectors \cup {NoVector}, engine \in EngineAnswers :
          \E b \in WeightsIn, d \in WeightsIn, e \in WeightsIn :
             qreq = [kind |-> "blend", query_vector |-> qv, engine |-> engine,
                     bm25_weight |-> b, dense_weight |-> d, elser_weight |-> e]
       \/ \E qv \in Vectors, engine \in EngineAnswers :
             qreq = [kind |-> "dense", query_vector |-> qv, engine |-> engine]
    /\ qsearch = NoSearch
    /\ qresp = NoResponse

BlendCall ==
    /\ qreq.kind = "blend"
    /\ qsearch = NoSearch
    /\ qsearch' = search_hybrid(qreq.query_vector, qreq.bm25_weight,
                                qreq.dense_weight, qreq.elser_weight, qreq.engine)
    /\ UNCHANGED <<qreq, qresp, chunkVars, ingestVars, corpusVars, saveVars>>

DenseCall ==
    /\ qreq.kind = "dense"
    /\ qsearch = NoSearch
    /\ qsearch' = search_dense_vector(qreq.query_vector, qreq.engine)
    /\ UNCHANGED <<qreq, qresp, chunkVars, ingestVars, corpusVars, saveVars>>

BlendNext == BlendCall \/ DenseCall

(***************************************************************************)
(* /ingest over the artifact cache                                         *)
(***************************************************************************)

\* main.py lines 20-21.
DEBUG == TRUE
AUTO_LOAD_TO_ELASTICSEARCH == TRUE

\* Sources (folder URLs) requested, files of a folder, /ingest requests served.
Sources == {"A", "B"}
MaxFiles == 2
MaxRuns == 2
Files == 1..MaxFiles
Stages == {"download", "extraction", "corpus", "chunks"}

\* chunk_text_by_tokens(text) as create_chunks_from_corpus calls it.
DefaultMaxTokens == 300
DefaultOverlapTokens == 50

\* What the PDF of a file is: text, no text at all, unreadable by fitz, or
\* not at its local_path.
PdfKinds == {"ok", "empty", "corrupt", "missing"}

\* A file name is a sequence of symbols: letters, a space, an underscore,
\* and the substrings ".pdf" and ".PDF". The files of a folder are named
\* a.pdf, b.pdf, ...
FileStem(f) == IF f = 1 THEN "a" ELSE IF f = 2 THEN "b" ELSE "c"
FileName(f) == <<FileStem(f), ".pdf">>

\* The name part of a chunk id:
\* pdf_name.replace('.pdf', '').replace(' ', '_').lower()
RemovePdf(name) == SelectSeq(name, LAMBDA c : c # ".pdf")
ReplaceSpaces(name) == [i \in DOMAIN name |-> IF name[i] = " " THEN "_" ELSE name[i]]
LowerSymbol(c) == IF c = "A" THEN "a" ELSE IF c = ".PDF" THEN ".pdf" ELSE c
Lower(name) == [i \in DOMAIN name |-> LowerSymbol(name[i])]
NormalizedName(name) == Lower(ReplaceSpaces(RemovePdf(name)))

\* f"{i+1:03d}": the decimal digits of the number, zero-padded on the left
\* to at least three.
RECURSIVE Digits(_)
Digits(n) == IF n < 10 THEN <<n>> ELSE Digits(n \div 10) \o <<n % 10>>
ZeroPad3(n) ==
    LET d == Digits(n)
    IN  IF Len(d) >= 3 THEN d ELSE [i \in 1..(3 - Len(d)) |-> 0] \o d

\* chunk_index of the i-th entry of enumerate(text_chunks), i counted from 1
\* here; ChunkIndex_ZeroBased is the variant that keeps enumerate's index.
ChunkIndex_ZeroBased(i) == i - 1
ChunkIndex(i) == i

\* A text is a sequence of characters. The characters of the model: a
\* space, the letters x, s and o, the apostrophe and one more symbol.
Chr == [sp |-> 0, x |-> 1, s |-> 2, o |-> 3, apos |-> 4, sym |-> 5]
IsSpace(c) == c = Chr.sp
IsLetter(c) == c \in {Chr.x, Chr.s, Chr.o}
IsOther(c) == ~IsSpace(c) /\ ~IsLetter(c)

\* The extracted text of a readable file: file 2 needs two windows, the
\* others fit one.
DocLen(f) == IF f = 2 THEN DefaultMaxTokens + 1 ELSE 2
DocTokens(f) == [i \in 1..DocLen(f) |-> Chr.x]

\* text.strip(): leading and trailing white-space tokens removed.
RECURSIVE StripLeft(_)
StripLeft(t) == IF t # <<>> /\ IsSpace(t[1]) THEN StripLeft(Tail(t)) ELSE t
RECURSIVE StripRight(_)
StripRight(t) ==
    IF t # <<>> /\ IsSpace(t[Len(t)]) THEN StripRight(SubSeq(t, 1, Len(t) - 1)) ELSE t
\* Strip_LeftOnly is the variant that strips as lstrip() does.
Strip_LeftOnly(t) == StripLeft(t)
Strip(t) == StripRight(StripLeft(t))

\* The first position at or after p whose character is in stop, or
\* Len(text) + 1.
Least(S, none) == IF S = {} THEN none ELSE CHOOSE i \in S : \A j \in S : i <= j
FirstIn(text, p, stop) ==
    Least({i \in p..Len(text) : text[i] \in stop}, Len(text) + 1)
AfterLetters(text, p) == FirstIn(text, p, {Chr.sp, Chr.apos, Chr.sym})
AfterOthers(text, p) == FirstIn(text, p, {Chr.sp, Chr.x, Chr.s, Chr.o})
AfterSpaces(text, p) == FirstIn(text, p, {Chr.x, Chr.s, Chr.o, Chr.apos, Chr.sym})

\* tiktoken's cl100k_base first cuts the text into pieces with its pattern,
\* the leftmost match of the first alternative that matches:
\*   (?i:'s|'t|'re|'ve|'m|'ll|'d) | [^\r\n\p{L}\p{N}]?\p{L}+ | \p{N}{1,3}
\*   |  ?[^\s\p{L}\p{N}]+[\r\n]* | \s*[\r\n]+ | \s+(?!\S) | \s+
\* PieceEnd is the position after the piece that starts at p (the model has
\* no digits and no line ends, and 's is its only contraction).
\* \s+(?!\S) then \s+, for the run of spaces from p that ends before e: all
\* of it at the end of the text, else all but its last space, else the one.
SpacesEnd(n, p, e) ==
    IF e = n + 1 THEN e ELSE IF e - 1 > p THEN e - 1 ELSE e
PieceEnd(text, p) ==
    LET n == Len(text)
        c == text[p]
        letter_next == p + 1 <= n /\ IsLetter(text[p + 1])
        other_next == p + 1 <= n /\ IsOther(text[p + 1])
    IN  IF c = Chr.apos /\ p + 1 <= n /\ text[p + 1] = Chr.s THEN p + 2
        ELSE IF IsLetter(c) \/ letter_next
          THEN AfterLetters(text, IF IsLetter(c) THEN p ELSE p + 1)
        ELSE IF IsOther(c) \/ other_next
          THEN AfterOthers(text, IF IsOther(c) THEN p ELSE p + 1)
        ELSE SpacesEnd(n, p, AfterSpaces(text, p))

\* The merges of the vocabulary, by rank: "so", "soo" and "'s" are tokens,
\* as "something" and "'s" are tokens of cl100k_base while "omething" is
\* none. A token is the sequence of its characters.
Merges == << << <<Chr.s>>, <<Chr.o>> >>,
             << <<Chr.s, Chr.o>>, <<Chr.o>> >>,
             << <<Chr.apos>>, <<Chr.s>> >> >>
RankOf(a, b) == CHOOSE r \in 1..Len(Merges) : Merges[r] = <<a, b>>
HasRank(a, b) == <<a, b>> \in {Merges[r] : r \in 1..Len(Merges)}

\* Byte pair encoding of one piece: the adjacent pair of lowest rank, the
\* leftmost of them, is merged until no adjacent pair has a rank.
PairKey(parts, i) == RankOf(parts[i], parts[i + 1]) * (Len(parts) + 1) + i
LowestPair(parts, P) ==
    CHOOSE i \in P : \A j \in P : PairKey(parts, i) <= PairKey(parts, j)
MergeAt(parts, at) ==
    SubSeq(parts, 1, at - 1) \o <<parts[at] \o parts[at + 1]>>
    \o SubSeq(parts, at + 2, Len(parts))
RECURSIVE BytePairEncode(_)
MergePairs(parts, P) ==
    IF P = {} THEN parts ELSE BytePairEncode(MergeAt(parts, LowestPair(parts, P)))
BytePairEncode(parts) ==
    MergePairs(parts, {i \in 1..(Len(parts) - 1) : HasRank(parts[i], parts[i + 1])})

\* encoding.encode(text)
RECURSIVE EncodeFrom(_, _)
EncodePiece(text, p, e) ==
    BytePairEncode([i \in 1..(e - p) |-> <<text[p + i - 1]>>])
    \o EncodeFrom(text, e)
EncodeFrom(text, p) ==
    IF p > Len(text) THEN <<>> ELSE EncodePiece(text, p, PieceEnd(text, p))
Encode(text) == EncodeFrom(text, 1)

\* encoding.decode(tokens): the characters of the tokens, in order.
RECURSIVE Concat(_, _, _)
Concat(toks, a, b) ==
    IF a > b THEN <<>>
    ELSE IF a = b THEN toks[a]
    ELSE LET mid == (a + b) \div 2
         IN  Concat(toks, a, mid) \o Concat(toks, mid + 1, b)
Decode(toks) ==
    IF \A i \in 1..Len(toks) : Len(toks[i]) = 1
      THEN [i \in 1..Len(toks) |-> toks[i][1]]
      ELSE Concat(toks, 1, Len(toks))

\* chunk_text_by_tokens as a function: the loop of ChunkStep run to its end
\* (it ends whenever overlap_tokens < max_tokens), each window decoded.
RECURSIVE ChunkFrom(_, _, _, _)
WindowsFrom(toks, m, ov, s, end) ==
    <<Decode(PySlice(toks, s, end))>>
    \o (IF end >= Len(toks) THEN <<>> ELSE ChunkFrom(toks, m, ov, NextStart(end, ov)))
ChunkFrom(toks, m, ov, s) == WindowsFrom(toks, m, ov, s, WindowEnd(s, m, Len(toks)))
ChunksOfTokens(text, toks, m, ov) ==
    IF Len(toks) <= m THEN <<text>> ELSE ChunkFrom(toks, m, ov, 0)
chunk_text_by_tokens(text, m, ov) == ChunksOfTokens(text, Encode(text), m, ov)

\* The keys of the dict extract_text_from_files_list appends for a file:
\* the "File not found or path empty" record, extract_text_with_metadata's
\* except record, and its full record.
MissingKeys == {"file_id", "filename", "filepath", "success", "text",
                "page_count", "error"}
CorruptKeys == {"file_id", "filename", "filepath", "download_link", "success",
                "text", "page_count", "metadata", "error"}
FullKeys == {"file_id", "filename", "filepath", "download_link", "success",
             "text", "page_count", "pages", "metadata", "char_count",
             "word_count", "ocr_pages_count", "error"}

\* ExtractedFileInfo: the fields without a default (error is Optional).
RequiredKeys == {"file_id", "filename", "filepath", "download_link", "success",
                 "text", "page_count", "char_count", "word_count", "pages",
                 "metadata"}

ExtractionOutcome(f, kind) ==
    [file_id  |-> f,
     filename |-> FileName(f),
     success  |-> kind \in {"ok", "empty"},
     text     |-> IF kind = "ok" THEN Strip(DocTokens(f)) ELSE <<>>,
     keys     |-> IF kind = "missing" THEN MissingKeys
                  ELSE IF kind = "corrupt" THEN CorruptKeys ELSE FullKeys]

extract_text_from_files_list(files, pdf) ==
    [i \in 1..Len(files) |-> ExtractionOutcome(files[i], pdf[files[i]])]

\* create_corpus_from_extraction
IsCorpusSource(r) == r.success /\ r.text # <<>>
create_corpus_from_extraction(extraction_results) ==
    LET kept == SelectSeq(extraction_results, IsCorpusSource)
    IN  [i \in 1..Len(kept) |->
            [pdf_name |-> kept[i].filename, corpus |-> Strip(kept[i].text)]]

\* The texts of the documents of a corpus, by their token counts: one
\* window, two windows, and the 1000 tokens that give four.
ExampleTokens == 1000
TextLens == {2, DefaultMaxTokens + 1, ExampleTokens}
Texts == {[i \in 1..n |-> Chr.x] : n \in TextLens}

\* text_chunks = chunk_text_by_tokens(text), each with the token_count line
\* 57 records for it: len(encode(chunk_text)). TextChunksOf holds them for
\* the texts of the documents, so that they are computed once.
WithTokenCount(text_chunks) ==
    [i \in 1..Len(text_chunks) |->
        [chunk_text  |-> text_chunks[i],
         token_count |-> Len(Encode(text_chunks[i]))]]
TextChunks(text) ==
    WithTokenCount(chunk_text_by_tokens(text, DefaultMaxTokens, DefaultOverlapTokens))
TextChunksOf ==
    [text \in Texts \cup {Strip(DocTokens(f)) : f \in Files} |-> TextChunks(text)]
Computed(held, text) == IF text \in DOMAIN held THEN held[text] ELSE TextChunks(text)

\* create_chunks_from_corpus
ChunkRecords(item, text_chunks) ==
    IF Strip(item.corpus) = <<>> THEN <<>>
    ELSE [i \in 1..Len(text_chunks) |->
            [chunk_id     |-> [name   |-> NormalizedName(item.pdf_name),
                               number |-> ZeroPad3(ChunkIndex(i))],
             filename     |-> item.pdf_name,
             raw_text     |-> Strip(text_chunks[i].chunk_text),
             chunk_index  |-> ChunkIndex(i),
             total_chunks |-> Len(text_chunks),
             token_count  |-> text_chunks[i].token_count,
             dense_vector |-> FALSE]]
ChunksOfItem(item) == ChunkRecords(item, Computed(TextChunksOf, item.corpus))
RECURSIVE create_chunks_from_corpus(_)
create_chunks_from_corpus(corpus) ==
    IF corpus = <<>> THEN <<>>
    ELSE ChunksOfItem(corpus[1]) \o create_chunks_from_corpus(Tail(corpus))

\* add_dense_vectors followed by create_elasticsearch_documents, when the
\* embedding model answers.
add_dense_vectors(cs) == [i \in 1..Len(cs) |-> [cs[i] EXCEPT !.dense_vector = TRUE]]

\* download_all_files_from_folder: found files in the folder, downloaded of
\* them fetched. None of its return statements has a "files" key.
download_all_files_from_folder(found, downloaded) ==
    IF found = 0
      THEN [success |-> FALSE, message |-> "No files found in folder",
            count |-> 0, has_files |-> FALSE, files |-> <<>>]
    ELSE IF downloaded > 0
      THEN [success |-> TRUE, message |-> "Downloaded PDF files",
            count |-> downloaded, has_files |-> FALSE, files |-> <<>>]
      ELSE [success |-> FALSE, message |-> "No files could be downloaded",
            count |-> 0, has_files |-> FALSE, files |-> <<>>]

\* A cache file: absent, unparseable, or a JSON object with the url and the
\* stage payload. The payload of the download stage is a result dict, that
\* of the other stages a list.
NoResult == [success |-> FALSE, message |-> "", count |-> 0,
             has_files |-> FALSE, files |-> <<>>]
EmptyPayload(stage) == IF stage = "download" THEN NoResult ELSE <<>>
AbsentFile(stage)  == [state |-> "absent", url |-> "", payload |-> EmptyPayload(stage)]
CorruptFile(stage) == [state |-> "corrupt", url |-> "", payload |-> EmptyPayload(stage)]
PresentFile(url, payload) == [state |-> "present", url |-> url, payload |-> payload]

\* load_download_result, load_extraction_result, load_corpus_result,
\* load_chunks_result: None when the file is missing or does not parse.
LoadPresent(file) == file.state = "present"

\* `if cached_download:` and `if cached_extraction:` etc.: a dict with keys
\* is true, a list is true when it is not empty.
UsesCached(stage, file) ==
    LoadPresent(file) /\ (stage = "download" \/ file.payload # <<>>)

\* result.get("files") is None or empty; NoFiles_Ignored is the variant
\* that never looks at the file list.
NoFiles_Ignored(result) == FALSE
NoFiles(result) == ~result.has_files \/ result.files = <<>>

\* IngestResponse(...) validates every extraction outcome as an
\* ExtractedFileInfo.
ResponseValid(extraction_results) ==
    \A i \in 1..Len(extraction_results) : RequiredKeys \subseteq extraction_results[i].keys

\* index_chunks after create_chunks_index
index_chunks(cs, es_ok) ==
    IF es_ok THEN [success |-> TRUE, indexed_count |-> Len(cs)]
             ELSE [success |-> FALSE, indexed_count |-> 0]

\* The body of ingest() for one request, given what the collaborators do:
\* found/downloaded (Google Drive), embed_ok (the embedding model), es_ok
\* (Elasticsearch). The result names the artifacts the run saves.
IngestRun(url, found, downloaded, embed_ok, es_ok) ==
    LET use_download == DEBUG /\ UsesCached("download", cache.download)
        result == IF use_download THEN cache.download.payload
                  ELSE download_all_files_from_folder(found, downloaded)
        stopped == ~result.success \/ NoFiles(result)
        use_extraction == DEBUG /\ UsesCached("extraction", cache.extraction)
        extraction_results ==
            IF use_extraction THEN cache.extraction.payload
            ELSE extract_text_from_files_list(result.files, drive.pdf)
        use_corpus == DEBUG /\ UsesCached("corpus", cache.corpus)
        corpus == IF use_corpus THEN cache.corpus.payload
                  ELSE create_corpus_from_extraction(extraction_results)
        use_chunks == DEBUG /\ UsesCached("chunks", cache.chunks)
        created == create_chunks_from_corpus(corpus)
        embedding == ~use_chunks /\ created # <<>>
        raised_embedding == embedding /\ ~embed_ok
        all_chunks == IF use_chunks THEN cache.chunks.payload
                      ELSE add_dense_vectors(created)
        indexing == AUTO_LOAD_TO_ELASTICSEARCH /\ all_chunks # <<>>
        elasticsearch_result ==
            IF indexing THEN index_chunks(all_chunks, es_ok)
            ELSE [success |-> FALSE, indexed_count |-> 0]
        successful == SelectSeq(extraction_results, LAMBDA r : r.success)
        status == IF result.success /\ successful # <<>> THEN "success"
                  ELSE IF result.success THEN "partial" ELSE "error"
        used == {st \in Stages :
                    \/ st = "download" /\ use_download
                    \/ st = "extraction" /\ ~stopped /\ use_extraction
                    \/ st = "corpus" /\ ~stopped /\ use_corpus
                    \/ st = "chunks" /\ ~stopped /\ use_chunks}
        loaded == {st \in Stages :
                    /\ DEBUG
                    /\ st = "download" \/ ~stopped
                    /\ LoadPresent(cache[st])}
        base == [url |-> url, loaded |-> loaded, used |-> used,
                 used_url |-> [st \in Stages |->
                                 IF st \in used THEN cache[st].url ELSE ""]]
    IN  IF stopped
          THEN base @@
               [invoked |-> IF use_download THEN {} ELSE {"download"},
                saved |-> IF DEBUG /\ ~use_download THEN {"download"} ELSE {},
                raised |-> "none", stage |-> "discovery", status |-> "error",
                embedding_failed |-> FALSE,
                message |-> result.message,
                result |-> result, extraction_results |-> <<>>,
                corpus |-> <<>>, chunks |-> <<>>, indexed |-> 0]
        ELSE LET invoked ==
                    (IF use_download THEN {} ELSE {"download"})
                    \cup (IF use_extraction THEN {} ELSE {"extraction"})
                    \cup (IF use_corpus THEN {} ELSE {"corpus"})
                    \cup (IF use_chunks THEN {} ELSE {"chunks"})
                    \cup (IF embedding THEN {"embedding"} ELSE {})
                 saved == IF DEBUG THEN Stages \ used ELSE {}
             IN  IF raised_embedding
                   THEN base @@
                        [invoked |-> invoked, saved |-> saved \ {"chunks"},
                         raised |-> "embedding", stage |-> "chunks",
                         status |-> "none", message |-> "",
                         embedding_failed |-> TRUE,
                         result |-> result,
                         extraction_results |-> extraction_results,
                         corpus |-> corpus, chunks |-> <<>>, indexed |-> 0]
                 ELSE base @@
                      [invoked |-> invoked \cup (IF indexing THEN {"index"} ELSE {}),
                       saved |-> saved,
                       raised |-> IF ResponseValid(extraction_results)
                                    THEN "none" ELSE "validation",
                       stage |-> "response", status |-> status,
                       embedding_failed |-> FALSE,
                       message |-> "Downloaded, extracted, created corpus, generated chunks",
                       result |-> result,
                       extraction_results |-> extraction_results,
                       corpus |-> corpus, chunks |-> all_chunks,
                       indexed |-> elasticsearch_result.indexed_count]

\* The payload a run saves for a stage.
SavedPayload(r, stage) ==
    IF stage = "download" THEN r.result
    ELSE IF stage = "extraction" THEN r.extraction_results
    ELSE IF stage = "corpus" THEN r.corpus
    ELSE r.chunks

\* save_download_result, save_extraction_result, save_corpus_result,
\* save_chunks_result: open(file, 'w') and json.dump inside try/except pass.
\* A failing open leaves the file as it was (ofail), a failing dump leaves
\* it truncated (dfail).
SaveAll(r, ofail, dfail) ==
    [st \in Stages |->
        IF st \notin r.saved \/ st \in ofail THEN cache[st]
        ELSE IF st \in dfail THEN CorruptFile(st)
        ELSE PresentFile(r.url, SavedPayload(r, st))]

\* What a failed save leaves in the log: the except clause of every save
\* function is `pass`.
SaveLog(failed) == {}

NoRun == [url |-> "", stage |-> "none"]

IngestIdle ==
    /\ drive = <<>>
    /\ cache = <<>>
    /\ run = NoRun
    /\ nruns = 0

\* The cache directory when the server starts: empty, or holding a download
\* artifact with a file list. (No run of this code writes a file list: see
\* download_all_files_from_folder.)
SeedFiles == {[i \in 1..n |-> i] : n \in 1..MaxFiles}
SeedResult(files) ==
    [success |-> TRUE, message |-> "Downloaded PDF files", count |-> Len(files),
     has_files |-> TRUE, files |-> files]
IngestInit ==
    /\ drive \in [pdf : [Files -> PdfKinds]]
    /\ \E dl \in {AbsentFile("download")}
                 \cup {PresentFile(u, SeedResult(fs)) : u \in Sources, fs \in SeedFiles} :
          cache = [st \in Stages |-> IF st = "download" THEN dl ELSE AbsentFile(st)]
    /\ run = NoRun
    /\ nruns = 0

\* POST /ingest (lines 307-429). The handler has no await: it runs from
\* start to end before the next request is taken.
Ingest ==
    /\ nruns < MaxRuns
    /\ \E url \in Sources :
       \E found \in (IF UsesCached("download", cache.download) THEN {0} ELSE 0..MaxFiles) :
       \E downloaded \in 0..found :
       \E embed_ok \in BOOLEAN, es_ok \in BOOLEAN :
       LET r == IngestRun(url, found, downloaded, embed_ok, es_ok)
       IN  /\ embed_ok \/ r.raised = "embedding"
           /\ es_ok \/ ("index" \in r.invoked /\ r.raised # "embedding")
           /\ \E ofail \in {{}} \cup {{st} : st \in r.saved} :
              \E dfail \in {{}} \cup {{st} : st \in r.saved} :
                 /\ ofail = {} \/ dfail = {}
                 /\ cache' = SaveAll(r, ofail, dfail)
                 /\ run' = [save_failed |-> ofail \cup dfail,
                            save_logged |-> SaveLog(ofail \cup dfail)] @@ r
    /\ nruns' = nruns + 1
    /\ UNCHANGED <<drive, chunkVars, queryVars, corpusVars, saveVars>>

IngestNext == Ingest

(***************************************************************************)
(* create_chunks_from_corpus and index_chunks on a given corpus            *)
(***************************************************************************)

\* Documents of a corpus; their texts are Texts.
MaxDocs == 2

\* Names such as "a .pdf", "A_.pdf", "a_.PDF".
Names == {<<x, y, e>> : x \in {"a", "A"}, y \in {" ", "_"}, e \in {".pdf", ".PDF"}}

\* The items create_corpus_from_extraction builds: a file name and a
\* stripped, non-empty text.
CorpusItems == [pdf_name : Names, corpus : Texts]

\* bulk(es, docs): every doc is stored under its _id = chunk_id, a later doc
\* replacing an earlier one with the same _id.
LastWith(cs, id) ==
    cs[CHOOSE i \in 1..Len(cs) :
          /\ cs[i].chunk_id = id
          /\ \A j \in (i + 1)..Len(cs) : cs[j].chunk_id # id]
BulkIndex(cs) ==
    [id \in {cs[i].chunk_id : i \in 1..Len(cs)} |-> LastWith(cs, id)]

CorpusIdle ==
    /\ the_corpus = <<>>
    /\ the_chunks = <<>>
    /\ es_index = <<>>
    /\ kpc = "idle"

CorpusInit ==
    /\ the_corpus \in SeqsUpTo(CorpusItems, MaxDocs)
    /\ the_chunks = <<>>
    /\ es_index = <<>>
    /\ kpc = "start"

\* chunks = create_chunks_from_corpus(corpus)
CreateChunks ==
    /\ kpc = "start"
    /\ the_chunks' = create_chunks_from_corpus(the_corpus)
    /\ kpc' = "created"
    /\ UNCHANGED <<the_corpus, es_index, chunkVars, queryVars, ingestVars, saveVars>>

\* index_chunks(chunks) after add_dense_vectors and
\* create_elasticsearch_documents, which keep every chunk_id.
IndexChunks ==
    /\ kpc = "created"
    /\ es_index' = BulkIndex(add_dense_vectors(the_chunks))
    /\ kpc' = "indexed"
    /\ UNCHANGED <<the_corpus, the_chunks, chunkVars, queryVars, ingestVars, saveVars>>

CorpusNext == CreateChunks \/ IndexChunks

\* Texts around the window bounds of create_chunks_from_corpus: a run of x,
\* then nothing, a word, or a symbol and a quoted word, then another run of
\* x, with or without a space at either end.
WindowStep == DefaultMaxTokens - DefaultOverlapTokens
Fill(n) == [i \in 1..n |-> Chr.x]
Pad(n) == [i \in 1..n |-> Chr.sp]
Middles == {<<>>,
            <<Chr.sp, Chr.s, Chr.o, Chr.o, Chr.sp>>,
            <<Chr.sym, Chr.apos, Chr.s, Chr.o, Chr.o>>}
BoundaryTexts ==
    {Pad(a) \o Fill(p) \o mid \o Fill(q) \o Pad(b) :
        a \in 0..1, b \in 0..2,
        p \in {0, WindowStep - 1, WindowStep},
        mid \in Middles,
        q \in {0, DefaultOverlapTokens - 2, DefaultMaxTokens}}
BoundaryItems == [pdf_name : {<<"a", " ", ".pdf">>}, corpus : BoundaryTexts]

\* A corpus of one such item.
BoundaryInit ==
    /\ \E item \in BoundaryItems : the_corpus = <<item>>
    /\ the_chunks = <<>>
    /\ es_index = <<>>
    /\ kpc = "start"

(***************************************************************************)
(* Overlapping /ingest requests at one cache file                          *)
(***************************************************************************)

\* Requests in flight together. Writer 0 is the run that left the file found
\* at the start.
NRequests == 2
Requests == 1..NRequests
Writers == 0..NRequests

\* json.dump writes through a buffered file: a large payload reaches the
\* file in several pieces, a payload [] in one, at close.
NPieces == 2
Pieces(kind) == IF kind = "empty" THEN 1 ELSE NPieces
Hole == [by |-> 0 - 1, part |-> 0]
FullContent(w, kind) == [k \in 1..Pieces(kind) |-> [by |-> w, part |-> k]]

NoFile == [exists |-> FALSE, content |-> <<>>]

\* What json.load finds: no file, the complete output of one save, or
\* anything else (an empty, half-written or mixed file).
Classify(file) ==
    IF ~file.exists THEN "nofile"
    ELSE IF \E w \in Writers : file.content = FullContent(w, payload_kind[w])
      THEN "complete"
      ELSE "partial"

\* `if cached_corpus:` after load_corpus_result.
CachedTruthy(file) ==
    /\ file.exists
    /\ \E w \in Writers : /\ payload_kind[w] = "full"
                          /\ file.content = FullContent(w, "full")

\* write() at the writer's own file offset k.
WriteAt(content, k, piece) ==
    [i \in 1..Max(Len(content), k) |->
        IF i = k THEN piece
        ELSE IF i <= Len(content) THEN content[i] ELSE Hole]

\* ingest is `async def` and its body has no await: once started, the
\* handler keeps the event loop until it returns. HandlerYields_Threaded is
\* the variant of a handler run on a thread pool, preempted at any step.
HandlerYields_Threaded(at) == TRUE
HandlerYields(at) == FALSE

At(at) == [at |-> at, k |-> 0]

SaveIdle ==
    /\ rpc = <<>>
    /\ loop = 0
    /\ disk = NoFile
    /\ observed = <<>>
    /\ payload_kind = <<>>
    /\ written = {}

\* Every request has been accepted and none has started.
SaveInit ==
    /\ rpc = [p \in Requests |-> At("arrived")]
    /\ loop = 0
    /\ payload_kind \in [Writers -> {"empty", "full"}]
    /\ disk \in {NoFile, [exists |-> TRUE, content |-> FullContent(0, payload_kind[0])]}
    /\ observed = [p \in Requests |-> "unread"]
    /\ written = {}

\* The event loop starts the handler of a pending request.
StartHandler ==
    /\ loop = 0
    /\ \E p \in Requests :
          /\ rpc[p].at = "arrived"
          /\ rpc' = [rpc EXCEPT ![p] = At("load")]
          /\ loop' = p
    /\ UNCHANGED <<disk, observed, payload_kind, written,
                   chunkVars, queryVars, ingestVars, corpusVars>>

\* cached_corpus = load_corpus_result(...); if cached_corpus: use it.
LoadStep ==
    \E p \in Requests :
       /\ loop \in {0, p}
       /\ rpc[p].at = "load"
       /\ observed' = [observed EXCEPT ![p] = Classify(disk)]
       /\ LET to == IF CachedTruthy(disk) THEN "done" ELSE "open"
          IN  /\ rpc' = [rpc EXCEPT ![p] = At(to)]
              /\ loop' = IF to = "done" \/ HandlerYields(to) THEN 0 ELSE p
       /\ UNCHANGED <<disk, payload_kind, written,
                      chunkVars, queryVars, ingestVars, corpusVars>>

\* save_corpus_result: open(debug_file, 'w') truncates the file.
OpenStep ==
    \E p \in Requests :
       /\ loop \in {0, p}
       /\ rpc[p].at = "open"
       /\ disk' = [exists |-> TRUE, content |-> <<>>]
       /\ rpc' = [rpc EXCEPT ![p] = [at |-> "write", k |-> 1]]
       /\ loop' = IF HandlerYields("write") THEN 0 ELSE p
       /\ UNCHANGED <<observed, payload_kind, written,
                      chunkVars, queryVars, ingestVars, corpusVars>>

\* json.dump(debug_data, f): the next piece, and the close after the last.
WriteStep ==
    \E p \in Requests :
       /\ loop \in {0, p}
       /\ rpc[p].at = "write"
       /\ LET k == rpc[p].k
              last == k = Pieces(payload_kind[p])
          IN  /\ disk' = [disk EXCEPT !.content =
                             WriteAt(disk.content, k, [by |-> p, part |-> k])]
              /\ rpc' = [rpc EXCEPT ![p] =
                            IF last THEN At("done") ELSE [at |-> "write", k |-> k + 1]]
              /\ written' = IF last THEN written \cup {p} ELSE written
              /\ loop' = IF last \/ HandlerYields("write") THEN 0 ELSE p
       /\ UNCHANGED <<observed, payload_kind,
                      chunkVars, queryVars, ingestVars, corpusVars>>

SaveNext == StartHandler \/ LoadStep \/ OpenStep \/ WriteStep

(***************************************************************************)
(* Specifications                                                          *)
(***************************************************************************)

InitChunk == ChunkInit /\ QueryIdle /\ IngestIdle /\ CorpusIdle /\ SaveIdle
SpecChunk == InitChunk /\ [][ChunkNext]_vars

InitRRF == ChunkIdle /\ QueryInit /\ IngestIdle /\ CorpusIdle /\ SaveIdle
SpecRRF == InitRRF /\ [][QueryNext]_vars

Init == ChunkIdle /\ QueryIdle /\ IngestInit /\ CorpusIdle /\ SaveIdle
Spec == Init /\ [][IngestNext]_vars

InitCorpus == ChunkIdle /\ QueryIdle /\ IngestIdle /\ CorpusInit /\ SaveIdle
SpecCorpus == InitCorpus /\ [][CorpusNext]_vars

InitBoundary == ChunkIdle /\ QueryIdle /\ IngestIdle /\ BoundaryInit /\ SaveIdle
SpecBoundary == InitBoundary /\ [][CorpusNext]_vars

InitBlend == ChunkIdle /\ BlendInit /\ IngestIdle /\ CorpusIdle /\ SaveIdle
SpecBlend == InitBlend /\ [][BlendNext]_vars

InitSave == ChunkIdle /\ QueryIdle /\ IngestIdle /\ CorpusIdle /\ SaveInit
SpecSave == InitSave /\ [][SaveNext]_vars

(***************************************************************************)
(* Claims about the token chunker (under SpecChunk)                        *)
(***************************************************************************)

CeilDiv(a, b) == (a + b - 1) \div b

\* C3: for T > max_tokens and 0 <= overlap_tokens < max_tokens the call
\* returns ceil((T - overlap) / (max - overlap)) segments; segment i
\* (0-based) starts at token i * (max - overlap); every non-final segment
\* has max_tokens tokens and ends before T; adjacent segments share exactly
\* overlap_tokens tokens; the final segment ends at token T.
C3_SlidingWindow ==
    (cpc = "done" /\ Len(tokens) > max_tokens /\ overlap_tokens < max_tokens) =>
        LET T    == Len(tokens)
            n    == Len(chunks)
            step == max_tokens - overlap_tokens
        IN  /\ n = CeilDiv(T - overlap_tokens, step)
            /\ Len(spans) = n
            /\ \A i \in 1..n :
                  /\ spans[i][1] = (i - 1) * step
                  /\ chunks[i] = SubSeq(tokens, spans[i][1] + 1, spans[i][2])
            /\ \A i \in 1..(n - 1) :
                  /\ Len(chunks[i]) = max_tokens
                  /\ spans[i][2] < T
                  /\ spans[i][2] - spans[i + 1][1] = overlap_tokens
                  /\ spans[i + 1][2] >= spans[i][2]
            /\ spans[n][2] = T

\* C3 witness: a finished call with a positive overlap below the window
\* that produced at least three segments.
C3_Witness ==
    /\ cpc = "done"
    /\ Len(tokens) > max_tokens
    /\ overlap_tokens > 0
    /\ overlap_tokens < max_tokens
    /\ Len(chunks) >= 3

\* C4: with overlap_tokens >= max_tokens on a text longer than max_tokens
\* the call never takes a loop iteration that leaves the window start where
\* it was or behind it (the configuration is rejected instead).
C4_OverlapNotBelowWindowRejected ==
    [][(/\ overlap_tokens >= max_tokens
        /\ Len(tokens) > max_tokens
        /\ cpc = "loop"
        /\ cpc' = "loop") => start' > start]_vars

(***************************************************************************)
(* Claims about search_hybrid_rrf and /query (under SpecRRF)               *)
(***************************************************************************)

\* The three signal result lists of the request, by priority
\* (lexical, dense, sparse), and a chunk's 0-based rank in one of them.
SignalLists == <<qreq.bm25.results, qreq.dense.results, qreq.elser.results>>
Candidates == UNION {Range(SignalLists[s]) : s \in 1..3}
RankIn(list, c) == (CHOOSE i \in 1..Len(list) : list[i] = c) - 1
SignalsOf(c) == {s \in 1..3 : c \in Range(SignalLists[s])}
Returned == qreq.kind # "none" /\ qsearch.kind = "returned"

\* The sum over the signals in S of 1 / (k + rank + 1), as a numerator
\* over RrfDenom(k), which every k + rank + 1 divides.
RECURSIVE SumOfReciprocals(_, _)
SumOfReciprocals(c, S) ==
    IF S = {} THEN 0
    ELSE LET s == CHOOSE x \in S : TRUE
         IN  RrfDenom(qreq.k) \div (qreq.k + RankIn(SignalLists[s], c) + 1)
             + SumOfReciprocals(c, S \ {s})
ExactReciprocals(c, S) ==
    \A s \in S : RrfDenom(qreq.k) % (qreq.k + RankIn(SignalLists[s], c) + 1) = 0

\* C5: the fused score of every returned chunk is the sum, over exactly the
\* signals whose list holds the chunk, of 1 / (k + rank + 1); with k = 60,
\* rank 0 in exactly one signal gives 1/61 and rank 0 in all three 3/61.
C5_FusedScore ==
    Returned =>
        \A i \in 1..Len(qsearch.results) :
            LET h == qsearch.results[i]
                S == SignalsOf(h.chunk_id)
                first == \A s \in S : RankIn(SignalLists[s], h.chunk_id) = 0
            IN  /\ S # {}
                /\ ExactReciprocals(h.chunk_id, S)
                /\ h.rrf_score = SumOfReciprocals(h.chunk_id, S)
                /\ (qreq.k = 60 /\ first /\ Cardinality(S) = 1)
                      => 61 * h.rrf_score = RrfDenom(60)
                /\ (qreq.k = 60 /\ first /\ Cardinality(S) = 3)
                      => 61 * h.rrf_score = 3 * RrfDenom(60)

\* C5 witness: with k = 60, a result whose first hit is ranked 0 in all
\* three signals and whose second hit is in one signal only, at rank 1.
C5_Witness ==
    /\ Returned
    /\ qreq.k = 60
    /\ Len(qsearch.results) = 2
    /\ Cardinality(SignalsOf(qsearch.results[1].chunk_id)) = 3
    /\ \A s \in 1..3 : RankIn(SignalLists[s], qsearch.results[1].chunk_id) = 0
    /\ \E s \in 1..3 :
          /\ SignalsOf(qsearch.results[2].chunk_id) = {s}
          /\ RankIn(SignalLists[s], qsearch.results[2].chunk_id) = 1

\* The fused score a candidate must have by the lists of the request.
ExpectedScore(c) == SumOfReciprocals(c, SignalsOf(c))

\* C6: for size >= 1 the result is drawn from the union of the three lists,
\* holds no chunk twice, is ordered by non-increasing fused score, has
\* min(size, number of candidates) hits, and no candidate left out scores
\* higher than a returned one.
C6_RankedTruncation ==
    Returned =>
        LET res == qsearch.results
            ids == {res[i].chunk_id : i \in 1..Len(res)}
        IN  /\ ids \subseteq Candidates
            /\ \A i, j \in 1..Len(res) : res[i].chunk_id = res[j].chunk_id => i = j
            /\ \A i, j \in 1..Len(res) : i < j => res[i].rrf_score >= res[j].rrf_score
            /\ Len(res) = Min(qreq.size, Cardinality(Candidates))
            /\ \A c \in Candidates \ ids : \A i \in 1..Len(res) :
                  ExpectedScore(c) <= res[i].rrf_score

\* C6 witness: a search with more candidates than the requested size, where
\* a candidate of strictly lower score was left out.
C6_Witness ==
    /\ Returned
    /\ Cardinality(Candidates) > qreq.size
    /\ Len(qsearch.results) = qreq.size
    /\ \E c \in Candidates :
          /\ \A i \in 1..Len(qsearch.results) : qsearch.results[i].chunk_id # c
          /\ ExpectedScore(c) < qsearch.results[Len(qsearch.results)].rrf_score

\* The tie-break key of a candidate: the first signal that saw it
\* (lexical before dense before sparse), then the chunk id.
FirstSeen(c) == CHOOSE s \in SignalsOf(c) : \A t \in SignalsOf(c) : s <= t
TieBefore(c, d) ==
    \/ FirstSeen(c) < FirstSeen(d)
    \/ FirstSeen(c) = FirstSeen(d) /\ c < d

\* C7: candidates of identical fused score are returned in the order of
\* first-seen signal priority, then chunk id, and the truncation keeps the
\* first of them in that order, whatever order the candidate set iterates in.
C7_DeterministicTieBreak ==
    Returned =>
        LET res == qsearch.results
            ids == {res[i].chunk_id : i \in 1..Len(res)}
        IN  /\ \A i, j \in 1..Len(res) :
                  (i < j /\ res[i].rrf_score = res[j].rrf_score)
                      => TieBefore(res[i].chunk_id, res[j].chunk_id)
            /\ \A c \in Candidates \ ids : \A i \in 1..Len(res) :
                  ExpectedScore(c) = res[i].rrf_score
                      => TieBefore(res[i].chunk_id, c)

\* The dense signal is unavailable: no usable query vector, or the dense
\* adapter answered with an error.
DenseUnavailable ==
    \/ qreq.query_vector \in {"none", "empty", "wrongdim"}
    \/ qreq.query_vector = "ok" /\ ~qreq.dense.success

\* C8: when the dense signal is unavailable and the lexical and sparse
\* signals return hits, search_hybrid_rrf completes with success, a
\* non-empty result ordered by fused score, and found_in.dense = false on
\* every hit.
C8_DenseDegradation ==
    (/\ qreq.kind # "none"
     /\ qsearch.kind # "none"
     /\ DenseUnavailable
     /\ qreq.bm25.success /\ qreq.bm25.results # <<>>
     /\ qreq.elser.success /\ qreq.elser.results # <<>>)
    => /\ qsearch.kind = "returned"
       /\ qsearch.success
       /\ qsearch.results # <<>>
       /\ \A i, j \in 1..Len(qsearch.results) :
             i < j => qsearch.results[i].rrf_score >= qsearch.results[j].rrf_score
       /\ \A i \in 1..Len(qsearch.results) : ~qsearch.results[i].found_in.dense

\* C9: when all three adapters answer success = false, search_hybrid_rrf
\* does not return success = true and the /query response has
\* generation_method "error".
C9_AllSignalsFailIsQueryFailure ==
    (/\ qreq.kind = "query"
     /\ qresp.generation_method # "none"
     /\ ~qreq.bm25.success
     /\ DenseCalled(qreq.query_vector) /\ ~qreq.dense.success
     /\ ~qreq.elser.success)
    => /\ ~(qsearch.kind = "returned" /\ qsearch.success)
       /\ qresp.generation_method = "error"


\* The compute steps of a stage, as names in run.invoked.
ComputeSteps(st) == IF st = "chunks" THEN {"chunks", "embedding"} ELSE {st}

\* C1: in a run of /ingest, a stage whose load returned a present artifact
\* (an empty-list payload included) has none of its compute steps invoked.
C1_CachedStageNotRecomputed ==
    run.stage # "none" =>
        \A st \in run.loaded : ComputeSteps(st) \cap run.invoked = {}

\* C2: a request uses an artifact that the request before it saved only if
\* both ingested the same source.
C2_NoSharingBetweenSources ==
    [][\A st \in Stages :
          (run.stage # "none" /\ st \in run.saved /\ st \in run'.used)
              => run'.url = run.url]_vars

\* C10: when the extraction of one discovered file fails and that of another
\* succeeds (and the embedding model answers), the request returns a
\* response with one outcome per discovered file.
HasFailedExtraction(r) ==
    \E i \in 1..Len(r.extraction_results) : ~r.extraction_results[i].success
HasSuccessfulExtraction(r) ==
    \E i \in 1..Len(r.extraction_results) : r.extraction_results[i].success
C10_ExtractionFailureIsolated ==
    (/\ run.stage = "response"
     /\ "extraction" \in run.invoked
     /\ HasFailedExtraction(run)
     /\ HasSuccessfulExtraction(run))
        => /\ run.raised = "none"
           /\ Len(run.extraction_results) = Len(run.result.files)


(***************************************************************************)
(* Claims about the status of /ingest (under Spec)                         *)
(***************************************************************************)

\* The download result of the last run has nothing to process.
NoDocuments == ~run.result.success \/ ~run.result.has_files \/ run.result.files = <<>>

BuiltResponse == run.stage = "response"

\* C12: when discovery succeeds and no extraction outcome is successful, the
\* run returns status "error".
C12_NoUsableTextEndsFailed ==
    (BuiltResponse /\ ~HasSuccessfulExtraction(run)) =>
        /\ run.raised = "none"
        /\ run.status = "error"

\* Elasticsearch was asked to index the chunks and indexed fewer than all.
IndexingFailed == "index" \in run.invoked /\ run.indexed < Len(run.chunks)

\* C13: when extraction succeeded for some but not all files, or indexing
\* reported failures, the run returns status "partial".
C13_PartialStatus ==
    (/\ BuiltResponse
     /\ \/ HasSuccessfulExtraction(run) /\ HasFailedExtraction(run)
        \/ IndexingFailed)
        => /\ run.raised = "none"
           /\ run.status = "partial"

\* C14: a response with status "success" has at least one chunk indexed.
C14_SuccessMeansIndexed ==
    (BuiltResponse /\ run.raised = "none" /\ run.status = "success")
        => run.indexed >= 1

\* C15: when the embedding model fails, the run still returns a response,
\* with status "partial" and what was produced before the failure.
C15_EmbeddingFailureIsPartial ==
    (run.stage # "none" /\ run.embedding_failed) =>
        /\ run.raised = "none"
        /\ run.status = "partial"


(***************************************************************************)
(* Claims about the cache files (under Spec)                               *)
(***************************************************************************)

\* C16: a save that fails partway never replaces an artifact that load
\* returned before by a file that load cannot read.
C16_SaveIsAtomic ==
    [][\A st \in Stages : LoadPresent(cache[st]) => LoadPresent(cache'[st])]_vars

\* C17: every failed save (a failing open or json.dump, which the save
\* functions swallow, so that the run goes on as without it) leaves a log
\* record.
C17_SaveFailureObservable ==
    (run.stage # "none" /\ run.save_failed # {}) =>
        run.save_failed \subseteq run.save_logged


(***************************************************************************)
(* Claims about chunk ids (under SpecCorpus)                               *)
(***************************************************************************)

\* The segments of a document, and the number of chunks of the documents
\* before the k-th.
SegmentsOf(item) ==
    LET held == Computed(TextChunksOf, item.corpus)
    IN  [i \in 1..Len(held) |-> held[i].chunk_text]
RECURSIVE ChunksBefore(_)
ChunksBefore(k) ==
    IF k = 1 THEN 0
    ELSE ChunksBefore(k - 1) + Len(SegmentsOf(the_corpus[k - 1]))

\* A number below 1000 written with three digits.
ThreeDigits(n) == <<n \div 100, (n \div 10) % 10, n % 10>>

\* C19: for every document of the corpus, create_chunks_from_corpus returns
\* one chunk per segment, in segment order, with chunk_index 1..n,
\* total_chunks = n and chunk_id = normalized file name + three-digit
\* chunk_index; the chunk ids of a document are pairwise distinct.
C19_ChunkIdsOfADocument ==
    kpc \in {"created", "indexed"} =>
        /\ Len(the_chunks) = ChunksBefore(Len(the_corpus) + 1)
        /\ \A k \in 1..Len(the_corpus) :
              LET item == the_corpus[k]
                  segs == SegmentsOf(item)
                  before == ChunksBefore(k)
                  at(i) == the_chunks[before + i]
              IN  /\ \A i \in 1..Len(segs) :
                        /\ at(i).filename = item.pdf_name
                        /\ at(i).raw_text = Strip(segs[i])
                        /\ at(i).chunk_index = i
                        /\ at(i).total_chunks = Len(segs)
                        /\ at(i).chunk_id.name = Lower(ReplaceSpaces(RemovePdf(item.pdf_name)))
                        /\ at(i).chunk_id.number = ThreeDigits(i)
                  /\ \A i, j \in 1..Len(segs) :
                        i # j => at(i).chunk_id # at(j).chunk_id

\* The example: one document of 1000 tokens gives chunks 001 .. 004.
C19_Witness ==
    /\ kpc = "created"
    /\ Len(the_corpus) = 1
    /\ Len(the_corpus[1].corpus) = ExampleTokens
    /\ Len(the_chunks) = 4
    /\ \A i \in 1..4 : the_chunks[i].chunk_id.number = <<0, 0, i>>


\* C20: no two chunks of one run have the same chunk_id, so the index holds
\* one document per chunk.
C20_ChunkIdIsAKey ==
    kpc = "indexed" =>
        /\ \A i, j \in 1..Len(the_chunks) :
              i # j => the_chunks[i].chunk_id # the_chunks[j].chunk_id
        /\ Cardinality(DOMAIN es_index) = Len(the_chunks)


(***************************************************************************)
(* Claims about overlapping requests (under SpecSave)                      *)
(***************************************************************************)

AllDone == \A p \in Requests : rpc[p].at = "done"

C21_TokenCountWithinMax ==
    kpc # "start" =>
        \A i \in 1..Len(the_chunks) : the_chunks[i].token_count <= DefaultMaxTokens

(***************************************************************************)
(* C22: for a text of at most max_tokens tokens chunk_text_by_tokens       *)
(* returns exactly one segment, equal to the input, and the single chunk   *)
(* built from it has raw_text equal to the input without its leading and   *)
(* trailing white space, chunk_index 1 and total_chunks 1.                 *)
(***************************************************************************)
TheText == the_corpus[1].corpus
ShortText == Len(Encode(TheText)) <= DefaultMaxTokens
Blank(t) == \A i \in 1..Len(t) : IsSpace(t[i])
\* raw is t without the spaces at its two ends
StrippedOf(raw, t) ==
    /\ raw # <<>> /\ ~IsSpace(raw[1]) /\ ~IsSpace(raw[Len(raw)])
    /\ \E a \in 0..Len(t) : \E b \in 0..Len(t) : t = Pad(a) \o raw \o Pad(b)

C23_FoundInFlags ==
    Returned =>
        \A i \in 1..Len(qsearch.results) :
            LET h == qsearch.results[i]
            IN  /\ h.found_in.bm25  <=> h.chunk_id \in Range(qreq.bm25.results)
                /\ h.found_in.dense <=> h.chunk_id \in Range(qreq.dense.results)
                /\ h.found_in.elser <=> h.chunk_id \in Range(qreq.elser.results)
                /\ h.found_in.bm25 \/ h.found_in.dense \/ h.found_in.elser

\* a hit that two signals list and the third, which has hits, does not
C23_Witness ==
    /\ Returned
    /\ qreq.dense.results # <<>>
    /\ \E i \in 1..Len(qsearch.results) :
          LET h == qsearch.results[i]
          IN  h.found_in.bm25 /\ h.found_in.elser /\ ~h.found_in.dense

(***************************************************************************)
(* C24: search_hybrid always normalizes the three weights before use: for  *)
(* every input triple the weights applied are non-negative, sum to 1 and   *)
(* keep the input ratios; (1,1,1) gives one third each and (0.2,0.3,0.5)   *)
(* is left unchanged.                                                      *)
(* The weights are divided by their sum only when the sum is positive.     *)
(***************************************************************************)
Blended == qreq.kind = "blend" /\ qsearch # NoSearch
Applied == <<qsearch.weights.bm25, qsearch.weights.dense, qsearch.weights.elser>>
Given == <<qreq.bm25_weight, qreq.dense_weight, qreq.elser_weight>>
SumIsOne(ws) ==
    ws[1].num * ws[2].den * ws[3].den + ws[2].num * ws[1].den * ws[3].den
        + ws[3].num * ws[1].den * ws[2].den
    = ws[1].den * ws[2].den * ws[3].den
C24_WeightsNormalized ==
    Blended =>
        /\ \A i \in 1..3 : Applied[i].num * Applied[i].den >= 0
        /\ SumIsOne(Applied)
        /\ \A i, j \in 1..3 :
              Applied[i].num * Applied[j].den * Given[j].num * Given[i].den
                  = Applied[j].num * Applied[i].den * Given[i].num * Given[j].den
        /\ (\A i \in 1..3 : FracEq(Given[i], Frac(1, 1)))
               => \A i \in 1..3 : FracEq(Applied[i], Frac(1, 3))
        /\ SumIsOne(Given) => \A i \in 1..3 : FracEq(Applied[i], Given[i])

(***************************************************************************)
(* C25: in search_hybrid a signal whose weight is exactly 0 contributes no *)
(* sub-query to the combined request (no lexical clause, no sparse clause, *)
(* no kNN section), and a signal of positive weight whose input is         *)
(* available contributes exactly one sub-query, whose boost is its native  *)
(* boost scaled by the normalized weight.                                  *)
(***************************************************************************)
Signals == {"bm25", "dense", "elser"}
WeightIn(sg) == IF sg = "bm25" THEN qreq.bm25_weight
                ELSE IF sg = "dense" THEN qreq.dense_weight
                ELSE qreq.elser_weight
\* the sub-queries of a signal in the request that was sent
SubQueries(sg) ==
    LET section == IF sg = "dense" THEN qsearch.knn ELSE qsearch.should
    IN  {i \in 1..Len(section) : section[i].signal = sg}
SubQuery(sg) ==
    LET section == IF sg = "dense" THEN qsearch.knn ELSE qsearch.should
    IN  section[CHOOSE i \in SubQueries(sg) : TRUE]
InputAvailable(sg) ==
    sg = "dense" => (qreq.query_vector.given /\ qreq.query_vector.len = Dim)
SumOfWeights == Plus(Plus(qreq.bm25_weight, qreq.dense_weight), qreq.elser_weight)
NativeBoost(sg) == IF sg = "bm25" THEN <<Frac(2, 1), Frac(3, 2)>> ELSE <<Frac(1, 1)>>

C25_ZeroWeightOmitted ==
    Blended =>
        \A sg \in Signals :
            /\ WeightIn(sg).num = 0 => SubQueries(sg) = {}
            /\ (WeightIn(sg).num > 0 /\ InputAvailable(sg)) =>
                  /\ Cardinality(SubQueries(sg)) = 1
                  /\ Len(SubQuery(sg).boosts) = Len(NativeBoost(sg))
                  /\ \A i \in 1..Len(NativeBoost(sg)) :
                        FracEq(Times(SubQuery(sg).boosts[i], SumOfWeights),
                               Times(NativeBoost(sg)[i], WeightIn(sg)))

\* a request sent with one weight 0 and the two others positive, the query
\* vector having 384 dimensions
C25_Witness ==
    /\ Blended
    /\ qreq.elser_weight.num = 0
    /\ qreq.bm25_weight.num > 0 /\ qreq.dense_weight.num > 0
    /\ InputAvailable("dense")
    /\ qsearch.should # <<>> /\ qsearch.knn # <<>>

(***************************************************************************)
(* C26: search_dense_vector called with a query vector whose length is not *)
(* exactly 384 returns a failure that names the dimension mismatch, and    *)
(* issues no search request to the engine.                                 *)
(***************************************************************************)
DenseAnswered == qreq.kind = "dense" /\ qsearch # NoSearch
C26_WrongDimensionRejected ==
    (DenseAnswered /\ qreq.query_vector.len # Dim) =>
        /\ ~qsearch.success
        /\ qsearch.error = "must have 384 dimensions"
        /\ qsearch.results = <<>>
        /\ qsearch.searches = 0

\* a vector one short of 384 was rejected though the engine had hits for it
C26_Witness ==
    /\ DenseAnswered
    /\ qreq.query_vector.len = Dim - 1
    /\ qreq.engine.ok /\ qreq.engine.hits # <<>>
    /\ ~qsearch.success

(***************************************************************************)
(* C27: when synthesis is requested for a query with at least one          *)
(* retrieved chunk and the synthesis collaborator fails, the /query        *)
(* request still succeeds and is downgraded to the extractive fallback:    *)
(* the answer is the extractive answer that is produced when synthesis is  *)
(* disabled, and the response reports the degraded mode.                   *)
(* The handler answers that it could not generate an answer instead.       *)
(***************************************************************************)
SynthesisFailed ==
    /\ qreq.kind = "query" /\ qresp # NoResponse
    /\ qsearch.kind = "returned" /\ qsearch.success /\ qsearch.results # <<>>
    /\ qreq.use_llm /\ ~qreq.llm_ok
\* the response to the same search when use_llm is false
WithoutSynthesis == QueryResponseOf(qsearch, qreq.size, FALSE, FALSE, <<>>)
C27_SynthesisFailureIsExtractive ==
    SynthesisFailed =>
        /\ qresp.generation_method # "error"
        /\ qresp.generation_method # "llm_generated"
        /\ qresp.answer = WithoutSynthesis.answer

(***************************************************************************)
(* C28: when no download artifact is cached and discovery finds and        *)
(* downloads at least one file, /ingest leaves the discovery stage         *)
(* normally: the discovery result carries the list of the downloaded       *)
(* files, extraction is invoked on exactly those files, and the run does   *)
(* not return status "error" at the discovery check.                       *)
(* No return statement of download_all_files_from_folder has a "files"     *)
(* key.                                                                    *)
(***************************************************************************)
Discovered ==
    /\ run.stage # "none"
    /\ "download" \in run.invoked
    /\ run.result.success /\ run.result.count >= 1
C28_DiscoveryHandsOverFiles ==
    Discovered =>
        /\ run.result.has_files
        /\ Len(run.result.files) = run.result.count
        /\ run.stage # "discovery"
        /\ run.status # "error"
        /\ "extraction" \in run.invoked =>
               Len(run.extraction_results) = Len(run.result.files)

(***************************************************************************)
(* C29: a failed stage outcome is never served from the cache: after an    *)
(* /ingest run whose discovery failed (result unsuccessful or without      *)
(* files), the next /ingest run invokes discovery again instead of loading *)
(* the failed result.                                                      *)
(* save_download_result stores whatever result it is given, and            *)
(* `if cached_download:` is true of every stored dict.                     *)
(***************************************************************************)
DiscoveryFailed == run.stage = "discovery" /\ "download" \in run.invoked
C29_FailedDiscoveryNotCached ==
    [][(DiscoveryFailed /\ nruns' = nruns + 1) => "download" \in run'.invoked]_vars

(***************************************************************************)
(* C30: in every /ingest response the stage outputs are consistent with    *)
(* each other, whatever subset of the artifacts is in the cache: the       *)
(* returned corpus is the corpus built from the returned extraction        *)
(* results, the returned (and indexed) chunks are the chunks built from    *)
(* the returned corpus, and no artifact is reused when a stage before it   *)
(* was recomputed in the same run.                                         *)
(* Each stage looks only at its own cache file.                            *)
(***************************************************************************)
StageOrder == <<"download", "extraction", "corpus", "chunks">>
C30_StagesConsistent ==
    run.stage = "response" =>
        /\ run.corpus = create_corpus_from_extraction(run.extraction_results)
        /\ run.chunks = add_dense_vectors(create_chunks_from_corpus(run.corpus))
        /\ \A i, j \in 1..Len(StageOrder) :
              (i < j /\ StageOrder[i] \in run.invoked) => StageOrder[j] \notin run.used

====
